---- MODULE Spec2Model ----
(***************************************************************************)
(* The audited WebSocket terminal of src/jest.setup.js (setupTerminal):    *)
(* one connection handler per accepted connection, token verification,     *)
(* the welcome banner, the keepalive timer, the message handler with the   *)
(* command table and the argument sanitizer, and the child processes it    *)
(* spawns.  Strings are sequences of characters; an inbound payload is     *)
(* kept as its whitespace-delimited tokens plus the lengths of the         *)
(* whitespace runs around them, which is all trim(), length and            *)
(* split(/\s+/) look at.                                                    *)
(***************************************************************************)
EXTENDS Integers, Sequences, FiniteSets, TLC

\* ------------------------------------------------------------- bounds
NumConns == 2
MaxMsgs == 2
MaxChunks == 1
MaxTicks == 1
MaxStrLen == 6

Conns == 1..NumConns

\* --------------------------------------------------------- characters
LF == "\n"
CR == "\r"
ESC == "ESC"

Letters ==
  {"a","b","c","d","e","f","g","h","i","j","k","l","m","n","o","p","q","r",
   "s","t","u","v","w","x","y","z","A","B","C","D","E","F","G","H","I","J",
   "K","L","M","N","O","P","Q","R","S","T","U","V","W","X","Y","Z"}

ParamChars == {"0","1","2","3","4","5","6","7","8","9",";"}

\* ------------------------------------------------------ program constants
SAFE_DIR == "/srv/projects/demo"

MAX_MSG_LEN == 10000

POLICY_VIOLATION == 1008
\* the period of the keepalive timer, in milliseconds
PING_INTERVAL == 25000
\* how long a peer may stay unresponsive, in milliseconds
PEER_TIMEOUT == 120000

\* the tokens that name something in the program
T_ls == <<"l","s">>
T_pwd == <<"p","w","d">>
T_cat == <<"c","a","t">>
T_less == <<"l","e","s","s">>
T_head == <<"h","e","a","d">>
T_tail == <<"t","a","i","l">>
T_ping == <<"_","_","p","i","n","g","_","_">>
T_slashc == <<"/","c">>
T_dir == <<"d","i","r">>
T_cd == <<"c","d">>
T_type == <<"t","y","p","e">>
T_constructor == <<"c","o","n","s","t","r","u","c","t","o","r">>
T_toString == <<"t","o","S","t","r","i","n","g">>
T_valueOf == <<"v","a","l","u","e","O","f">>
T_proto == <<"_","_","p","r","o","t","o","_","_">>
T_hasOwnProperty == <<"h","a","s","O","w","n","P","r","o","p","e","r","t","y">>

\* ---------------------------------------------------------- command table
OwnNames == {T_ls, T_pwd, T_cat, T_less, T_head, T_tail}

\* property names every object literal inherits from Object.prototype
InheritedNames == {T_constructor, T_toString, T_valueOf, T_proto, T_hasOwnProperty}

Entry(kind, cmd, args) == [kind |-> kind, cmd |-> cmd, args |-> args]

\* mutant: the table of a POSIX host on every platform
mapCommands_NoPlatform(win, name) ==
  IF name = T_ls THEN Entry("spec", "ls", <<>>)
  ELSE IF name = T_pwd THEN Entry("spec", "pwd", <<>>)
  ELSE IF name = T_cat THEN Entry("spec", "cat", <<>>)
  ELSE IF name = T_less THEN Entry("spec", "less", <<>>)
  ELSE IF name = T_head THEN Entry("spec", "head", <<>>)
  ELSE IF name = T_tail THEN Entry("spec", "tail", <<>>)
  ELSE IF name \in InheritedNames THEN Entry("inherited", "", <<>>)
  ELSE Entry("undefined", "", <<>>)

\* mapCommands[name]: "spec" is a {cmd, args} object, "null" the null entry,
\* "inherited" a member of Object.prototype, "undefined" no property at all
mapCommands(win, name) ==
  IF name = T_ls THEN
    (IF win THEN Entry("spec", "cmd", <<T_slashc, T_dir>>) ELSE Entry("spec", "ls", <<>>))
  ELSE IF name = T_pwd THEN
    (IF win THEN Entry("spec", "cmd", <<T_slashc, T_cd>>) ELSE Entry("spec", "pwd", <<>>))
  ELSE IF name = T_cat THEN
    (IF win THEN Entry("spec", "cmd", <<T_slashc, T_type>>) ELSE Entry("spec", "cat", <<>>))
  ELSE IF name = T_less THEN
    (IF win THEN Entry("null", "", <<>>) ELSE Entry("spec", "less", <<>>))
  ELSE IF name = T_head THEN
    (IF win THEN Entry("null", "", <<>>) ELSE Entry("spec", "head", <<>>))
  ELSE IF name = T_tail THEN
    (IF win THEN Entry("null", "", <<>>) ELSE Entry("spec", "tail", <<>>))
  ELSE IF name \in InheritedNames THEN Entry("inherited", "", <<>>)
  ELSE Entry("undefined", "", <<>>)

\* mutant: only the null entry is refused, entry === null
NotAllowed_NullOnly(entry) == entry.kind = "null"

\* !mapCommands[command]
NotAllowed(entry) == entry.kind \in {"null", "undefined"}

\* -------------------------------------------------------------- sanitizer
RECURSIVE ParamRun(_, _)
\* how many characters of [0-9;] s has from position i on
ParamRun(s, i) ==
  IF i <= Len(s) /\ s[i] \in ParamChars THEN 1 + ParamRun(s, i + 1) ELSE 0

\* mutant: the pattern has no parameter part, /\x1B\[[A-Za-z]/
AnsiMatchLen_NoParams(s) ==
  IF Len(s) >= 3 /\ s[1] = ESC /\ s[2] = "[" /\ s[3] \in Letters THEN 3 ELSE 0

\* length of the match of /\x1B\[[0-9;]*[A-Za-z]/ at the start of s, 0 if none
AnsiMatchLen(s) ==
  IF Len(s) >= 3 /\ s[1] = ESC /\ s[2] = "["
  THEN LET k == ParamRun(s, 3)
       IN IF 3 + k <= Len(s) /\ s[3 + k] \in Letters THEN 3 + k ELSE 0
  ELSE 0

RECURSIVE StripAnsi(_)
\* a.replace(/\x1B\[[0-9;]*[A-Za-z]/g, ''): one left-to-right pass
StripAnsi(s) ==
  IF s = <<>> THEN <<>>
  ELSE LET n == AnsiMatchLen(s)
       IN IF n > 0 THEN StripAnsi(SubSeq(s, n + 1, Len(s)))
          ELSE <<Head(s)>> \o StripAnsi(Tail(s))

sanitizeArgs(args) == [i \in 1..Len(args) |-> StripAnsi(args[i])]


\* ------------------------------------------------------- inbound payloads
\* A payload: lead whitespace characters, the tokens toks separated by the
\* whitespace runs gaps (Len(gaps) = Len(toks) - 1, each >= 1), trail
\* whitespace characters.
Payload(lead, toks, gaps, trail) ==
  [lead |-> lead, toks |-> toks, gaps |-> gaps, trail |-> trail]

RECURSIVE SumLen(_)
SumLen(toks) == IF toks = <<>> THEN 0 ELSE Len(Head(toks)) + SumLen(Tail(toks))

RECURSIVE Sum(_)
Sum(ns) == IF ns = <<>> THEN 0 ELSE Head(ns) + Sum(Tail(ns))

\* String.prototype.length
StrLen(m) == m.lead + SumLen(m.toks) + Sum(m.gaps) + m.trail

\* String.prototype.trim
Trim(m) == [m EXCEPT !.lead = 0, !.trail = 0]

\* raw.split(/\s+/) of a trimmed string: the empty string splits into [""]
SplitWs(raw) == IF raw.toks = <<>> THEN << <<>> >> ELSE raw.toks

\* mutant: the probe is compared with another literal
IsPing_WrongLiteral(raw) == raw = Payload(0, << <<"p","i","n","g">> >>, <<>>, 0)

\* raw === '__ping__'
IsPing(raw) == raw = Payload(0, <<T_ping>>, <<>>, 0)

\* mutant: off by one (>=)
TooLong_OffByOne(raw) == StrLen(raw) >= MAX_MSG_LEN

\* raw.length > MAX_MSG_LEN
TooLong(raw) == StrLen(raw) > MAX_MSG_LEN

T_rm == <<"r","m">>
T_rf == <<"-","r","f">>
T_slash == <<"/">>
T_x == <<"x">>
T_trav == <<".",".","/",".",".","/","e","t","c","/","p","a","s","s","w","d">>
T_esc == <<ESC,"[","3","1",";","1","m","a",ESC,"[","K">>

MsgNames ==
  {"ls", "cat", "rm", "ping", "ctor", "blank", "long", "padded", "max", "less", "esc",
   "head", "tail"}

\* the payloads the client of a session followed in depth sends
SessionMsgs == {"ls", "rm", "ping", "ctor", "blank", "long", "padded", "max", "less"}

\* the payloads of the model
Msg(n) ==
  CASE n = "ls" -> Payload(0, <<T_ls>>, <<>>, 0)
    [] n = "cat" -> Payload(0, <<T_cat, T_trav>>, <<1>>, 1)
    [] n = "rm" -> Payload(0, <<T_rm, T_rf, T_slash>>, <<1, 1>>, 0)
    [] n = "ping" -> Payload(1, <<T_ping>>, <<>>, 1)
    [] n = "ctor" -> Payload(0, <<T_constructor>>, <<>>, 0)
    [] n = "blank" -> Payload(2, <<>>, <<>>, 0)
    [] n = "long" -> Payload(0, <<T_rm, T_x>>, <<MAX_MSG_LEN - 2>>, 0)
    [] n = "padded" -> Payload(0, <<T_pwd>>, <<>>, MAX_MSG_LEN - 2)
    [] n = "max" -> Payload(0, <<T_rm, T_x>>, <<MAX_MSG_LEN - 3>>, 0)
    [] n = "less" -> Payload(0, <<T_less, T_x>>, <<2>>, 0)
    [] n = "esc" -> Payload(0, <<T_ls, T_esc>>, <<1>>, 0)
    [] n = "head" -> Payload(0, <<T_head, T_x>>, <<1>>, 0)
    [] n = "tail" -> Payload(0, <<T_tail>>, <<>>, 0)

\* mutant: the pattern is not global, only the first line feed is rewritten
CrLf_FirstOnly(text) ==
  IF \E i \in 1..Len(text) : text[i] = LF
  THEN LET i == CHOOSE j \in 1..Len(text) :
                  text[j] = LF /\ \A h \in 1..(j - 1) : text[h] # LF
       IN SubSeq(text, 1, i - 1) \o <<CR, LF>> \o SubSeq(text, i + 1, Len(text))
  ELSE text

\* ----------------------------------------------------------- outbound text
\* A text is a sequence of pieces: single characters and literals that hold
\* no line feed.
RECURSIVE CrLf(_)
\* String(text).replace(/\n/g, '\r\n')
CrLf(text) ==
  IF text = <<>> THEN <<>>
  ELSE (IF Head(text) = LF THEN <<CR, LF>> ELSE <<Head(text)>>) \o CrLf(Tail(text))

\* A frame carries its text, and a tag of the modelling to tell what it
\* belongs to: the process p that wrote it (0: none) and the position m of the
\* payload it answers among those the message handler has run for (0: none).
Frame(src, text) == [p |-> src.p, m |-> src.m, text |-> text]
BySession == [p |-> 0, m |-> 0]
ByMessage(k) == [p |-> 0, m |-> k]
ByProcess(p) == [p |-> p, m |-> 0]

\* mutant: the readyState is not looked at
sendText_Unconditional(rs, q, src, text) == Append(q, Frame(src, CrLf(text)))

\* sendText(ws, text) on a socket whose readyState is rs and whose frames so
\* far are q
sendText(rs, q, src, text) ==
  IF rs = "OPEN" THEN Append(q, Frame(src, CrLf(text))) ELSE q

TokenNotReceivedText == <<"(x) Token not received", LF>>
InvalidTokenText == <<"(x) Invalid token", LF>>
InputTooLongText == <<"(x) Input too long", LF>>
NotAllowedText(command) == <<"(x) Command not allowed: ">> \o command \o <<LF>>
BannerText ==
  <<"Welcome to the secure terminal!", LF,
    "Allowed commands: ls, pwd, cat, less, head, tail", LF,
    "Directory: ", SAFE_DIR, LF>>
ExitText(code) == <<"Process finished with exit code ", code, LF>>
StdoutText(d) == d
StderrText(d) == <<"Error: ">> \o d

\* what a child process writes in one chunk
ChunkData == <<"o", LF, "k", LF>>

\* String(code) of the 'close' event: an exit status, or null after a signal
ExitCodes == {"0", "1", "null"}

\* ---------------------------------------------------------- authentication
NullToken == "<null>"
Tokens == {NullToken, "", "tokA", "tokB", "forged"}

\* mutant: only an absent parameter counts as missing (token === null)
TokenMissing_NullOnly(tok) == tok = NullToken

\* !token
TokenMissing(tok) == tok = NullToken \/ tok = ""

\* await getAuth().verifyIdToken(token): resolves with the decoded subject or
\* rejects
verifyIdToken(tok) ==
  CASE tok = "tokA" -> [ok |-> TRUE, uid |-> "A"]
    [] tok = "tokB" -> [ok |-> TRUE, uid |-> "B"]
    [] OTHER -> [ok |-> FALSE, uid |-> "anon"]

\* mutant: the close call is left out
wsClose_Forgotten(rs) == rs

\* ws.close(code) by the server: a close frame goes out on an open socket
wsClose(rs) == IF rs = "OPEN" THEN "CLOSING" ELSE rs


\* ------------------------------------------------------------------ state
VARIABLES
  isWin,     \* process.platform === 'win32'
  ws,        \* ws.readyState of each connection ("NONE": not yet accepted)
  pc,        \* where the connection handler of each connection stands
  token,     \* the token of the connection URL
  userId,    \* let userId
  timer,     \* pingInterval: "unset", "active", "cleared"
  closeCode, \* the code of the server's close frame, 0 if it sent none
  sent,      \* the text frames sent to the client, in order
  pings,     \* the ping frames sent to the client
  procs,     \* every child process spawned, in spawn order
  log,       \* console output about each connection
  heard,     \* the payloads the message handler has run for, in order
  nmsgs,     \* payloads the clients have sent
  nticks,    \* timer callbacks run
  unanswered, \* pings sent since the peer fell silent, -1 while it responds
  sanIn,     \* the argument list handed to sanitizeArgs
  sanOut     \* whether sanitizeArgs was called on it, and what it returned

vars ==
  <<isWin, ws, pc, token, userId, timer, closeCode, sent, pings, procs, log,
    heard, nmsgs, nticks, unanswered, sanIn, sanOut>>

Init ==
  /\ isWin \in BOOLEAN
  /\ ws = [c \in Conns |-> "NONE"]
  /\ pc = [c \in Conns |-> "idle"]
  /\ token = [c \in Conns |-> NullToken]
  /\ userId = [c \in Conns |-> "anon"]
  /\ timer = [c \in Conns |-> "unset"]
  /\ closeCode = [c \in Conns |-> 0]
  /\ sent = [c \in Conns |-> <<>>]
  /\ pings = [c \in Conns |-> 0]
  /\ procs = <<>>
  /\ log = [c \in Conns |-> <<>>]
  /\ heard = [c \in Conns |-> <<>>]
  /\ nmsgs = 0
  /\ nticks = 0
  /\ unanswered = [c \in Conns |-> -1]
  /\ sanIn = <<>>
  /\ sanOut = [done |-> FALSE, args |-> <<>>]

\* ------------------------------------------------------ connection handler
\* the position of the handler after the token check
AfterTokenCheck(tok) == IF TokenMissing(tok) THEN "refused" ELSE "verifying"

\* wss.on('connection'): up to the await
Connect(c, tok) ==
  /\ ws[c] = "NONE"
  /\ token' = [token EXCEPT ![c] = tok]
  /\ pc' = [pc EXCEPT ![c] = AfterTokenCheck(tok)]
  /\ IF AfterTokenCheck(tok) = "refused"
     THEN /\ sent' = [sent EXCEPT ![c] = sendText("OPEN", sent[c], BySession, TokenNotReceivedText)]
          /\ ws' = [ws EXCEPT ![c] = wsClose("OPEN")]
          /\ closeCode' = [closeCode EXCEPT ![c] = POLICY_VIOLATION]
     ELSE /\ ws' = [ws EXCEPT ![c] = "OPEN"]
          /\ UNCHANGED <<sent, closeCode>>
  /\ UNCHANGED <<isWin, userId, timer, pings, procs, log, heard, nmsgs, nticks, unanswered, sanIn, sanOut>>

\* the position of the handler after the await
AfterVerify(ok) == IF ok THEN "ready" ELSE "refused"

\* wss.on('connection'): from the await on
VerifyDone(c) ==
  /\ pc[c] = "verifying"
  /\ LET decoded == verifyIdToken(token[c])
     IN /\ pc' = [pc EXCEPT ![c] = AfterVerify(decoded.ok)]
        /\ IF decoded.ok
           THEN /\ userId' = [userId EXCEPT ![c] = decoded.uid]
                /\ log' = [log EXCEPT ![c] = Append(@, "Authenticated user")]
                /\ sent' = [sent EXCEPT ![c] = sendText(ws[c], sent[c], BySession, BannerText)]
                /\ UNCHANGED <<ws, closeCode>>
           ELSE /\ sent' = [sent EXCEPT ![c] = sendText(ws[c], sent[c], BySession, InvalidTokenText)]
                /\ ws' = [ws EXCEPT ![c] = wsClose(ws[c])]
                /\ closeCode' = [closeCode EXCEPT ![c] =
                                   IF ws[c] = "OPEN" THEN POLICY_VIOLATION ELSE @]
                /\ UNCHANGED <<userId, log>>
        /\ timer' = [timer EXCEPT ![c] =
                       IF AfterVerify(decoded.ok) = "ready" THEN "active" ELSE @]
  /\ UNCHANGED <<isWin, token, pings, procs, heard, nmsgs, nticks, unanswered, sanIn, sanOut>>

\* mutant: the arguments of the message come before those of the table
Decide_UserArgsFirst(win, msg) ==
  LET raw == Trim(msg)
      parts == SplitWs(raw)
      command == Head(parts)
      args == Tail(parts)
      entry == mapCommands(win, command)
  IN IF IsPing(raw) THEN [act |-> "ignore", command |-> <<>>, cmd |-> "", args |-> <<>>]
     ELSE IF TooLong(raw)
       THEN [act |-> "toolong", command |-> <<>>, cmd |-> "", args |-> <<>>]
     ELSE IF NotAllowed(entry)
       THEN [act |-> "notallowed", command |-> command, cmd |-> "", args |-> <<>>]
     ELSE IF entry.kind = "inherited"
       THEN [act |-> "throw", command |-> command, cmd |-> "", args |-> <<>>]
     ELSE [act |-> "spawn", command |-> command, cmd |-> entry.cmd,
           args |-> sanitizeArgs(args \o entry.args)]

\* --------------------------------------------------------- message handler
\* what ws.on('message') decides for one payload
Decide(win, msg) ==
  LET raw == Trim(msg)
      parts == SplitWs(raw)
      command == Head(parts)
      args == Tail(parts)
      entry == mapCommands(win, command)
  IN IF IsPing(raw) THEN [act |-> "ignore", command |-> <<>>, cmd |-> "", args |-> <<>>]
     ELSE IF TooLong(raw)
       THEN [act |-> "toolong", command |-> <<>>, cmd |-> "", args |-> <<>>]
     ELSE IF NotAllowed(entry)
       THEN [act |-> "notallowed", command |-> command, cmd |-> "", args |-> <<>>]
     ELSE IF entry.kind = "inherited"
       \* cmd and baseArgs are undefined: [...baseArgs] throws a TypeError
       THEN [act |-> "throw", command |-> command, cmd |-> "", args |-> <<>>]
     ELSE [act |-> "spawn", command |-> command, cmd |-> entry.cmd,
           args |-> sanitizeArgs(entry.args \o args)]

\* mutant: the command line is handed to a shell
Child_ViaShell(c, k, d, started) ==
  [conn |-> c, m |-> k, cmd |-> d.cmd, args |-> d.args,
   shell |-> TRUE, cwd |-> SAFE_DIR,
   st |-> IF started THEN "running" ELSE "failed", chunks |-> 0, code |-> ""]

\* spawn(cmd, cleanArgs, {shell: false, cwd: SAFE_DIR, env: process.env})
Child(c, k, d, started) ==
  [conn |-> c, m |-> k, cmd |-> d.cmd, args |-> d.args,
   shell |-> FALSE, cwd |-> SAFE_DIR,
   st |-> IF started THEN "running" ELSE "failed", chunks |-> 0, code |-> ""]

\* mutant: the latest command is put ahead of those launched before it
OnMessage_LastFirst(c, msg) ==
  LET d == Decide(isWin, msg)
      k == Len(heard[c]) + 1
  IN CASE d.act = "ignore" -> UNCHANGED <<sent, procs, log>>
       [] d.act = "toolong" ->
            /\ sent' = [sent EXCEPT ![c] = sendText(ws[c], sent[c], ByMessage(k), InputTooLongText)]
            /\ UNCHANGED <<procs, log>>
       [] d.act = "notallowed" ->
            /\ sent' = [sent EXCEPT ![c] =
                          sendText(ws[c], sent[c], ByMessage(k), NotAllowedText(d.command))]
            /\ UNCHANGED <<procs, log>>
       [] d.act = "throw" ->
            /\ log' = [log EXCEPT ![c] = Append(@, "unhandledRejection")]
            /\ UNCHANGED <<sent, procs>>
       [] d.act = "spawn" ->
            \E started \in BOOLEAN :
              /\ procs' = <<Child(c, k, d, started)>> \o procs
              /\ log' = [log EXCEPT ![c] =
                           IF started THEN @ ELSE Append(@, "uncaughtException")]
              /\ UNCHANGED sent

\* mutant: the commands of subject "B" are all refused
OnMessage_BySubject(c, msg) ==
  LET d == IF userId[c] = "B"
           THEN [act |-> "notallowed", command |-> Head(SplitWs(Trim(msg))),
                 cmd |-> "", args |-> <<>>]
           ELSE Decide(isWin, msg)
      k == Len(heard[c]) + 1
  IN CASE d.act = "ignore" -> UNCHANGED <<sent, procs, log>>
       [] d.act = "toolong" ->
            /\ sent' = [sent EXCEPT ![c] = sendText(ws[c], sent[c], ByMessage(k), InputTooLongText)]
            /\ UNCHANGED <<procs, log>>
       [] d.act = "notallowed" ->
            /\ sent' = [sent EXCEPT ![c] =
                          sendText(ws[c], sent[c], ByMessage(k), NotAllowedText(d.command))]
            /\ UNCHANGED <<procs, log>>
       [] d.act = "throw" ->
            /\ log' = [log EXCEPT ![c] = Append(@, "unhandledRejection")]
            /\ UNCHANGED <<sent, procs>>
       [] d.act = "spawn" ->
            \E started \in BOOLEAN :
              /\ procs' = Append(procs, Child(c, k, d, started))
              /\ log' = [log EXCEPT ![c] =
                           IF started THEN @ ELSE Append(@, "uncaughtException")]
              /\ UNCHANGED sent

\* ws.on('message', ...) for the payload msg
OnMessage(c, msg) ==
  LET d == Decide(isWin, msg)
      k == Len(heard[c]) + 1
  IN CASE d.act = "ignore" -> UNCHANGED <<sent, procs, log>>
       [] d.act = "toolong" ->
            /\ sent' = [sent EXCEPT ![c] = sendText(ws[c], sent[c], ByMessage(k), InputTooLongText)]
            /\ UNCHANGED <<procs, log>>
       [] d.act = "notallowed" ->
            /\ sent' = [sent EXCEPT ![c] =
                          sendText(ws[c], sent[c], ByMessage(k), NotAllowedText(d.command))]
            /\ UNCHANGED <<procs, log>>
       [] d.act = "throw" ->
            \* the async handler rejects: server.js logs the unhandled rejection
            /\ log' = [log EXCEPT ![c] = Append(@, "unhandledRejection")]
            /\ UNCHANGED <<sent, procs>>
       [] d.act = "spawn" ->
            \* the child starts, or it emits 'error', which has no listener:
            \* server.js logs the uncaught exception and 'close' never comes
            \E started \in BOOLEAN :
              /\ procs' = Append(procs, Child(c, k, d, started))
              /\ log' = [log EXCEPT ![c] =
                           IF started THEN @ ELSE Append(@, "uncaughtException")]
              /\ UNCHANGED sent

\* mutant: the first exception that escapes a handler ends the listening
Listening_UntilFault(c) ==
  /\ pc[c] = "ready"
  /\ ws[c] = "OPEN"
  /\ \A i \in 1..Len(log[c]) : log[c][i] \notin {"unhandledRejection", "uncaughtException"}

\* mutant: the 'message' listener is registered as soon as the connection
\* is accepted
Listening_WhenOpen(c) == ws[c] = "OPEN"

\* mutant: the 'message' listener is registered before the await
Listening_BeforeVerify(c) == pc[c] \in {"verifying", "ready"} /\ ws[c] = "OPEN"

\* whether a payload the client sends reaches a 'message' listener
Listening(c) == pc[c] = "ready" /\ ws[c] = "OPEN"

\* the client sends the payload named n
ClientSend(c, n) ==
  /\ nmsgs < MaxMsgs
  /\ \/ ws[c] = "OPEN"
     \/ ws[c] = "CLOSING" /\ pc[c] = "refused"
  /\ nmsgs' = nmsgs + 1
  /\ IF Listening(c)
     THEN /\ heard' = [heard EXCEPT ![c] = Append(@, n)]
          /\ OnMessage(c, Msg(n))
     ELSE UNCHANGED <<heard, sent, procs, log>>
  /\ UNCHANGED <<isWin, ws, pc, token, userId, timer, closeCode, pings, nticks, unanswered, sanIn, sanOut>>

\* mutant: the output of a child goes to every connection of the server
ChildData_Broadcast(p, stream) ==
  /\ procs[p].st = "running"
  /\ procs[p].chunks < MaxChunks
  /\ LET text == IF stream = "stdout" THEN StdoutText(ChunkData) ELSE StderrText(ChunkData)
     IN sent' = [c \in Conns |-> sendText(ws[c], sent[c], ByProcess(p), text)]
  /\ procs' = [procs EXCEPT ![p].chunks = @ + 1]
  /\ UNCHANGED <<isWin, ws, pc, token, userId, timer, closeCode, pings, log, heard, nmsgs, nticks, unanswered, sanIn, sanOut>>

\* ---------------------------------------------------------- child processes
\* child.stdout.on('data') / child.stderr.on('data')
ChildData(p, stream) ==
  /\ procs[p].st = "running"
  /\ procs[p].chunks < MaxChunks
  /\ LET c == procs[p].conn
         text == IF stream = "stdout" THEN StdoutText(ChunkData) ELSE StderrText(ChunkData)
     IN sent' = [sent EXCEPT ![c] = sendText(ws[c], sent[c], ByProcess(p), text)]
  /\ procs' = [procs EXCEPT ![p].chunks = @ + 1]
  /\ UNCHANGED <<isWin, ws, pc, token, userId, timer, closeCode, pings, log, heard, nmsgs, nticks, unanswered, sanIn, sanOut>>

\* mutant: the status line is sent on 'exit', while the output streams may
\* still deliver
ChildClose_OnExit(p, code) ==
  /\ procs[p].st = "running"
  /\ procs[p].code = ""
  /\ LET c == procs[p].conn
     IN sent' = [sent EXCEPT ![c] = sendText(ws[c], sent[c], ByProcess(p), ExitText(code))]
  /\ procs' = [procs EXCEPT ![p].code = code]
  /\ UNCHANGED <<isWin, ws, pc, token, userId, timer, closeCode, pings, log, heard, nmsgs, nticks, unanswered, sanIn, sanOut>>

\* child.on('close'): after both output streams have ended
ChildClose(p, code) ==
  /\ procs[p].st = "running"
  /\ LET c == procs[p].conn
     IN sent' = [sent EXCEPT ![c] = sendText(ws[c], sent[c], ByProcess(p), ExitText(code))]
  /\ procs' = [procs EXCEPT ![p].st = "closed", ![p].code = code]
  /\ UNCHANGED <<isWin, ws, pc, token, userId, timer, closeCode, pings, log, heard, nmsgs, nticks, unanswered, sanIn, sanOut>>

\* mutant: the callback pings without looking at the state of the socket
Tick_NoStateCheck(c) ==
  /\ timer[c] = "active"
  /\ nticks < MaxTicks
  /\ nticks' = nticks + 1
  /\ pings' = [pings EXCEPT ![c] = @ + 1]
  /\ UNCHANGED <<isWin, ws, pc, token, userId, timer, closeCode, sent, procs, log, heard, nmsgs, unanswered, sanIn, sanOut>>

\* -------------------------------------------------------- keepalive, close
\* the setInterval callback
Tick(c) ==
  /\ timer[c] = "active"
  /\ nticks < MaxTicks
  /\ nticks' = nticks + 1
  /\ pings' = [pings EXCEPT ![c] = IF ws[c] = "OPEN" THEN @ + 1 ELSE @]
  /\ UNCHANGED <<isWin, ws, pc, token, userId, timer, closeCode, sent, procs, log, heard, nmsgs, unanswered, sanIn, sanOut>>

\* clearInterval(pingInterval), where a listener is registered
ClearedIfRegistered(c) == IF pc[c] = "ready" THEN "cleared" ELSE timer[c]

\* mutant: the close listener kills the children of the connection
SocketClose_KillsChildren(c) ==
  /\ ws[c] \in {"OPEN", "CLOSING"}
  /\ ws' = [ws EXCEPT ![c] = "CLOSED"]
  /\ timer' = [timer EXCEPT ![c] = ClearedIfRegistered(c)]
  /\ procs' = [p \in 1..Len(procs) |->
                 IF procs[p].conn = c /\ procs[p].st = "running"
                 THEN [procs[p] EXCEPT !.st = "closed", !.code = "null"]
                 ELSE procs[p]]
  /\ UNCHANGED <<isWin, pc, token, userId, closeCode, sent, pings, log, heard, nmsgs, nticks, unanswered, sanIn, sanOut>>

\* the socket closes (peer disconnect, or the closing handshake completes):
\* ws.on('close')
SocketClose(c) ==
  /\ ws[c] \in {"OPEN", "CLOSING"}
  /\ ws' = [ws EXCEPT ![c] = "CLOSED"]
  /\ timer' = [timer EXCEPT ![c] = ClearedIfRegistered(c)]
  /\ UNCHANGED <<isWin, pc, token, userId, closeCode, sent, pings, procs, log, heard, nmsgs, nticks, unanswered, sanIn, sanOut>>

\* a transport error: the socket starts closing and 'error' is emitted;
\* ws.on('error') where registered, an uncaught exception otherwise
TransportError(c) ==
  /\ ws[c] = "OPEN"
  /\ ws' = [ws EXCEPT ![c] = "CLOSING"]
  /\ timer' = [timer EXCEPT ![c] = ClearedIfRegistered(c)]
  /\ log' = [log EXCEPT ![c] =
               Append(@, IF pc[c] = "ready" THEN "WebSocket connection error"
                         ELSE "uncaughtException")]
  /\ UNCHANGED <<isWin, pc, token, userId, closeCode, sent, pings, procs, heard, nmsgs, nticks, unanswered, sanIn, sanOut>>

\* One session followed in depth: the connection handler, the message handler
\* and the child processes of connection 1, under every payload of
\* SessionMsgs.
Next ==
  \/ \E tok \in Tokens : Connect(1, tok)
  \/ VerifyDone(1)
  \/ \E n \in SessionMsgs : ClientSend(1, n)
  \/ \E p \in 1..Len(procs), stream \in {"stdout", "stderr"} : ChildData(p, stream)
  \/ \E p \in 1..Len(procs), code \in ExitCodes : ChildClose(p, code)
  \/ Tick(1)
  \/ SocketClose(1)
  \/ TransportError(1)

Spec == Init /\ [][Next]_vars


\* the payloads of a client that exercises the argument vector
LaunchMsgs == {"ls", "cat", "esc", "less", "rm"}

\* One session followed up to the launch of its commands: the processes
\* launched stay silent.
NextLaunch ==
  \/ \E tok \in Tokens : Connect(1, tok)
  \/ VerifyDone(1)
  \/ \E n \in LaunchMsgs : ClientSend(1, n)
  \/ Tick(1)
  \/ SocketClose(1)
  \/ TransportError(1)

SpecLaunch == Init /\ [][NextLaunch]_vars

\* ---------------------------------------------- the sanitizer on its own
\* the characters argument strings are drawn from: the escape character, the
\* bracket, a parameter character, a letter and a character of no class
SanChars == {ESC, "[", "1", "m", "/"}

\* the argument strings of at most n characters
Strings(n) == UNION {[1..k -> SanChars] : k \in 0..n}

\* the argument lists sanitizeArgs is called on: every list of one string,
\* and lists of no, two and three arguments
SanInputs ==
  {<<s>> : s \in Strings(MaxStrLen)}
    \cup {<<>>, <<T_esc, T_trav>>, << <<"/", ESC, "[", "1", "m", "/">>, T_esc, T_trav >>}

InitSan ==
  /\ isWin \in BOOLEAN
  /\ ws = [c \in Conns |-> "NONE"]
  /\ pc = [c \in Conns |-> "idle"]
  /\ token = [c \in Conns |-> NullToken]
  /\ userId = [c \in Conns |-> "anon"]
  /\ timer = [c \in Conns |-> "unset"]
  /\ closeCode = [c \in Conns |-> 0]
  /\ sent = [c \in Conns |-> <<>>]
  /\ pings = [c \in Conns |-> 0]
  /\ procs = <<>>
  /\ log = [c \in Conns |-> <<>>]
  /\ heard = [c \in Conns |-> <<>>]
  /\ nmsgs = 0
  /\ nticks = 0
  /\ unanswered = [c \in Conns |-> -1]
  /\ sanIn \in SanInputs
  /\ sanOut = [done |-> FALSE, args |-> <<>>]

\* const cleanArgs = sanitizeArgs(...)
Sanitize ==
  /\ ~sanOut.done
  /\ sanOut' = [done |-> TRUE, args |-> sanitizeArgs(sanIn)]
  /\ UNCHANGED <<isWin, ws, pc, token, userId, timer, closeCode, sent, pings, procs, log,
                 heard, nmsgs, nticks, unanswered, sanIn>>

NextSan == Sanitize

SpecSan == InitSan /\ [][NextSan]_vars

\* ------------------------------------------------- several sessions at once
\* the tokens and the payloads of the clients of concurrent sessions
MultiTokens == {"tokA", "tokB"}
MultiMsgs == {"ls", "rm"}

\* Every connection of the server, interleaved; the children write to
\* stdout and exit with code 0.
NextMulti ==
  \/ \E c \in Conns, tok \in MultiTokens : Connect(c, tok)
  \/ \E c \in Conns : VerifyDone(c)
  \/ \E c \in Conns, n \in MultiMsgs : ClientSend(c, n)
  \/ \E p \in 1..Len(procs) : ChildData(p, "stdout")
  \/ \E p \in 1..Len(procs) : ChildClose(p, "0")
  \/ \E c \in Conns : Tick(c)
  \/ \E c \in Conns : SocketClose(c)
  \/ \E c \in Conns : TransportError(c)

SpecMulti == Init /\ [][NextMulti]_vars

\* ------------------------------------------------------- a peer gone silent
\* the number of unanswered pings after which the peer has been silent for
\* longer than PEER_TIMEOUT: the first and the last of them are
\* (DeadAfterTicks - 1) * PING_INTERVAL apart
DeadAfterTicks == (PEER_TIMEOUT \div PING_INTERVAL) + 2

\* the peer stops responding: no pong, no message and no close frame comes
\* from it any more
PeerSilent(c) ==
  /\ ws[c] = "OPEN"
  /\ unanswered[c] = -1
  /\ unanswered' = [unanswered EXCEPT ![c] = 0]
  /\ UNCHANGED <<isWin, ws, pc, token, userId, timer, closeCode, sent, pings, procs, log,
                 heard, nmsgs, nticks, sanIn, sanOut>>

\* the setInterval callback on an open connection whose peer is silent: the
\* ping goes out, and no code looks for its pong
TickUnanswered(c) ==
  /\ timer[c] = "active"
  /\ ws[c] = "OPEN"
  /\ unanswered[c] >= 0
  /\ unanswered[c] < DeadAfterTicks
  /\ pings' = [pings EXCEPT ![c] = @ + 1]
  /\ unanswered' = [unanswered EXCEPT ![c] = @ + 1]
  /\ UNCHANGED <<isWin, ws, pc, token, userId, timer, closeCode, sent, procs, log,
                 heard, nmsgs, nticks, sanIn, sanOut>>

\* One session whose peer may fall silent at any moment.
NextAlive ==
  \/ \E tok \in Tokens : Connect(1, tok)
  \/ VerifyDone(1)
  \/ PeerSilent(1)
  \/ TickUnanswered(1)
  \/ Tick(1)
  \/ SocketClose(1)
  \/ TransportError(1)

SpecAlive == Init /\ [][NextAlive]_vars

\* ------------------------------------------------- every name of the table
\* the payloads of a client that names each command of the table
TableMsgs == {"ls", "padded", "cat", "less", "head", "tail"}

\* One session that asks for every command of the table, up to the launch.
NextTable ==
  \/ \E tok \in Tokens : Connect(1, tok)
  \/ VerifyDone(1)
  \/ \E n \in TableMsgs : ClientSend(1, n)
  \/ Tick(1)
  \/ SocketClose(1)
  \/ TransportError(1)

SpecTable == Init /\ [][NextTable]_vars

\* ---------------------------------------------------------------- claims
\* the frames of connection c that answer its k-th handled payload
FramesFor(c, k) == SelectSeq(sent[c], LAMBDA f : f.m = k)

\* the processes spawned for the k-th handled payload of connection c
ProcsFor(c, k) == {p \in 1..Len(procs) : procs[p].conn = c /\ procs[p].m = k}

\* the frames written for process p, in the order sent
FramesOf(p) == SelectSeq(sent[procs[p].conn], LAMBDA f : f.p = p)

IsExitFrame(f) == f.text[1] = "Process finished with exit code "

ExitFramesOf(p) == SelectSeq(FramesOf(p), IsExitFrame)

FirstToken(m) == Head(SplitWs(Trim(m)))

Vocabulary == {T_ls, T_pwd, T_cat, T_less, T_head, T_tail}

NoTokenSupplied(c) == token[c] = NullToken \/ token[c] = ""

HandlerReturned(c) == pc[c] \in {"refused", "ready"}

\* C1: every payload handled on an authenticated session whose first token is
\* not a vocabulary name (and that is neither the probe literal nor over the
\* length limit, which never reach the command path) spawns no process and is
\* answered by exactly one 'Command not allowed: <token>' frame naming it.
C1_NonVocabularyRejected ==
  \A c \in Conns : \A k \in 1..Len(heard[c]) :
    LET m == Msg(heard[c][k])
        tok == FirstToken(m)
    IN (/\ tok \notin Vocabulary
        /\ Trim(m).toks # <<T_ping>>
        /\ StrLen(Trim(m)) <= MAX_MSG_LEN)
       => /\ ProcsFor(c, k) = {}
          /\ FramesFor(c, k) = <<Frame(ByMessage(k), CrLf(NotAllowedText(tok)))>>

\* C2: a child process exists for a connection only if verifyIdToken resolved
\* on that connection; a connection whose token is missing or rejected is
\* refused, its payloads are never handled and it never runs a command.
C2_SpawnOnlyAfterVerification ==
  /\ \A p \in 1..Len(procs) :
       /\ pc[procs[p].conn] = "ready"
       /\ verifyIdToken(token[procs[p].conn]).ok
  /\ \A c \in Conns :
       (HandlerReturned(c) /\ (NoTokenSupplied(c) \/ ~verifyIdToken(token[c]).ok))
       => /\ heard[c] = <<>>
          /\ ws[c] # "OPEN"
          /\ \A p \in 1..Len(procs) : procs[p].conn # c

C2_Witness ==
  /\ pc[1] = "refused"
  /\ token[1] = "forged"
  /\ nmsgs = MaxMsgs
  /\ ws[1] = "CLOSING"

\* C3 as stated: once the process of an accepted command has closed, exactly
\* one exit-status line has been sent for it, after every chunk of its output.
C3_ExactlyOneExitLine ==
  \A p \in 1..Len(procs) :
    procs[p].st = "closed"
    => /\ Len(ExitFramesOf(p)) = 1
       /\ IsExitFrame(FramesOf(p)[Len(FramesOf(p))])

\* C3 amended: at most one exit-status line is sent per process, none before
\* the process closes; when it is sent it carries the exit code and is the
\* last frame of that process; it is sent when the process closes on a
\* connection that is still open.
C3_ExitLineLast ==
  \A p \in 1..Len(procs) :
    LET fs == FramesOf(p)
        n == Len(ExitFramesOf(p))
    IN /\ n <= 1
       /\ n = 1 => /\ procs[p].st = "closed"
                   /\ fs[Len(fs)] = Frame(ByProcess(p), CrLf(ExitText(procs[p].code)))
       /\ (procs[p].st = "closed" /\ ws[procs[p].conn] = "OPEN") => n = 1

C3_Witness ==
  \E p \in 1..Len(procs) :
    /\ procs[p].st = "closed"
    /\ Len(FramesOf(p)) = MaxChunks + 1
    /\ Len(ExitFramesOf(p)) = 1

\* C4: a launch failure is reported as an exit-status line and raises no
\* fault out of the message handling.
C4_LaunchFailureReported ==
  \A p \in 1..Len(procs) :
    procs[p].st = "failed"
    => /\ Len(ExitFramesOf(p)) = 1
       /\ \A i \in 1..Len(log[procs[p].conn]) :
            log[procs[p].conn][i] # "uncaughtException"

\* the processes of connection c that have not closed
InFlight(c) == {p \in 1..Len(procs) : procs[p].conn = c /\ procs[p].st = "running"}

\* C5: a session has at most one child process in flight.
C5_OneInFlight == \A c \in Conns : Cardinality(InFlight(c)) <= 1

\* C6: a connection opened without a token gets the 'Token not received'
\* frame and nothing else, is closed with code 1008, and has no keepalive
\* timer and no message handling.
C6_NoTokenRefused ==
  \A c \in Conns :
    (ws[c] # "NONE" /\ NoTokenSupplied(c))
    => /\ sent[c] = <<Frame(BySession, CrLf(TokenNotReceivedText))>>
       /\ closeCode[c] = 1008
       /\ ws[c] \in {"CLOSING", "CLOSED"}
       /\ pc[c] = "refused"
       /\ timer[c] = "unset"
       /\ pings[c] = 0
       /\ heard[c] = <<>>

C6_Witness ==
  /\ token[1] = ""
  /\ ws[1] = "CLOSED"
  /\ nmsgs > 0
  /\ Len(sent[1]) = 1


Rejected(c) ==
  HandlerReturned(c) /\ ~NoTokenSupplied(c) /\ ~verifyIdToken(token[c]).ok

InvalidTokenFrame == Frame(BySession, CrLf(InvalidTokenText))

\* C7 as stated: a rejected token is answered by the single 'Invalid token'
\* frame and a close with code 1008, and no payload is handled afterwards.
C7_InvalidTokenDiagnosed ==
  \A c \in Conns :
    Rejected(c) => /\ sent[c] = <<InvalidTokenFrame>>
                   /\ closeCode[c] = 1008
                   /\ heard[c] = <<>>

\* C7 amended: when the token is rejected while the connection is still open,
\* the single 'Invalid token' frame is sent and the connection is closed with
\* code 1008; when the connection has stopped being open during verification,
\* nothing is sent and no close frame goes out; in both cases no payload is
\* ever handled, no process is spawned and no timer is started.
C7_RejectedTokenRefused ==
  /\ [](\A c \in Conns :
          Rejected(c)
          => /\ heard[c] = <<>>
             /\ \A p \in 1..Len(procs) : procs[p].conn # c
             /\ timer[c] = "unset"
             /\ ws[c] # "OPEN"
             /\ \/ sent[c] = <<InvalidTokenFrame>> /\ closeCode[c] = 1008
                \/ sent[c] = <<>> /\ closeCode[c] = 0)
  /\ [][\A c \in Conns :
          (pc[c] = "verifying" /\ pc'[c] # "verifying"
             /\ ~verifyIdToken(token[c]).ok /\ ws[c] = "OPEN")
          => /\ sent'[c] = <<InvalidTokenFrame>>
             /\ closeCode'[c] = 1008
             /\ ws'[c] = "CLOSING"]_vars

C7_Witness ==
  /\ Rejected(1)
  /\ sent[1] = <<InvalidTokenFrame>>
  /\ ws[1] = "CLOSING"
  /\ nmsgs = MaxMsgs

ValidToken(c) == ws[c] # "NONE" /\ verifyIdToken(token[c]).ok

BannerFrame == Frame(BySession, CrLf(BannerText))

\* C8 as stated: once verification has succeeded the banner has been sent,
\* as the first frame of the connection.
C8_BannerAlwaysSent ==
  \A c \in Conns :
    (ValidToken(c) /\ HandlerReturned(c))
    => sent[c] # <<>> /\ sent[c][1] = BannerFrame

\* C8 amended: on a connection whose token is valid the banner is sent when
\* verification completes on a connection that is still open, and only then;
\* whatever is sent on the connection, the banner is its first frame.
C8_BannerFirst ==
  /\ [](\A c \in Conns :
          ValidToken(c)
          => /\ sent[c] = <<>> \/ sent[c][1] = BannerFrame
             /\ \A i \in 2..Len(sent[c]) : sent[c][i] # BannerFrame)
  /\ [][\A c \in Conns :
          (pc[c] = "verifying" /\ pc'[c] # "verifying"
             /\ verifyIdToken(token[c]).ok /\ ws[c] = "OPEN")
          => sent'[c] = <<BannerFrame>>]_vars
  /\ [][\A c \in Conns :
          (pc[c] = "verifying" /\ pc'[c] # "verifying" /\ ws[c] # "OPEN")
          => sent'[c] = <<>>]_vars

C8_Witness ==
  /\ ValidToken(1)
  /\ Len(sent[1]) >= 3
  /\ sent[1][1] = BannerFrame
  /\ \E i \in 2..Len(sent[1]) : sent[1][i].m > 0
  /\ \E i \in 2..Len(sent[1]) : sent[1][i].p > 0

\* C9: handling the payload '__ping__' (surrounding whitespace aside) sends
\* nothing, spawns nothing and changes no part of the session.
C9_PingIsNoOp ==
  [][\A c \in Conns : \A n \in MsgNames :
       (Trim(Msg(n)).toks = <<T_ping>> /\ heard'[c] = Append(heard[c], n))
       => UNCHANGED <<ws, pc, token, userId, timer, closeCode, sent, pings, procs, log>>]_vars

C9_Witness ==
  /\ Len(heard[1]) = 2
  /\ heard[1][2] = "ping"
  /\ InFlight(1) # {}
  /\ timer[1] = "active"
  /\ ws[1] = "OPEN"

InputTooLongFrame(k) == Frame(ByMessage(k), CrLf(InputTooLongText))

\* C10 as stated: a payload whose raw text is longer than 10,000 characters
\* is answered by 'Input too long' and launches nothing.
C10_RawLengthRejected ==
  \A c \in Conns : \A k \in 1..Len(heard[c]) :
    StrLen(Msg(heard[c][k])) > MAX_MSG_LEN
    => /\ FramesFor(c, k) = <<InputTooLongFrame(k)>>
       /\ ProcsFor(c, k) = {}

\* C10 amended: the limit applies to the payload with its leading and
\* trailing whitespace removed: a trimmed payload longer than 10,000
\* characters is answered by 'Input too long' alone and launches nothing, one
\* of at most 10,000 characters is never answered by it, and the payload that
\* follows a rejected one is handled: a following 'ls' launches its process.
C10_TrimmedLengthRejected ==
  \A c \in Conns : \A k \in 1..Len(heard[c]) :
    LET n == StrLen(Trim(Msg(heard[c][k])))
    IN /\ n > MAX_MSG_LEN => /\ FramesFor(c, k) = <<InputTooLongFrame(k)>>
                             /\ ProcsFor(c, k) = {}
       /\ n <= MAX_MSG_LEN => \A i \in 1..Len(sent[c]) : sent[c][i] # InputTooLongFrame(k)
       /\ (n > MAX_MSG_LEN /\ k < Len(heard[c]) /\ heard[c][k + 1] = "ls")
          => Cardinality(ProcsFor(c, k + 1)) = 1

C10_Witness ==
  /\ heard[1] = <<"long", "ls">>
  /\ FramesFor(1, 1) = <<InputTooLongFrame(1)>>
  /\ ProcsFor(1, 2) # {}

\* C11: a closed connection never has its keepalive timer running, whatever
\* the state of the session when it closed, token verification pending
\* included.
C11_ClosedTimerInactive ==
  \A c \in Conns : ws[c] = "CLOSED" => timer[c] # "active"

\* C12: every child process spawned runs the executable of the table entry of
\* the command name its message asked for, in the safe directory and without
\* a shell; the table it is read from is the one of the platform the server
\* started on.
C12_SpawnFromTableInSafeDir ==
  \A p \in 1..Len(procs) :
    LET name == FirstToken(Msg(heard[procs[p].conn][procs[p].m]))
        entry == mapCommands(isWin, name)
    IN /\ name \in Vocabulary
       /\ entry.kind = "spec"
       /\ procs[p].cmd = entry.cmd
       /\ procs[p].cwd = SAFE_DIR
       /\ procs[p].shell = FALSE

\* two commands were spawned on Windows, one of them closed
C12_Witness ==
  /\ isWin
  /\ Len(procs) = 2
  /\ heard[1] = <<"ls", "padded">>
  /\ procs[1].cmd = "cmd" /\ procs[1].st = "closed"
  /\ procs[2].args = <<T_slashc, T_cd>>

\* s[i..j] is an ANSI escape sequence: ESC, "[", parameter characters, a letter
IsEscapeAt(s, i, j) ==
  /\ i + 2 <= j
  /\ j <= Len(s)
  /\ s[i] = ESC
  /\ s[i + 1] = "["
  /\ \A k \in (i + 2)..(j - 1) : s[k] \in ParamChars
  /\ s[j] \in Letters

\* the positions of s that lie in no escape sequence of s
Kept(s) ==
  {k \in 1..Len(s) : ~ \E i \in 1..k : \E j \in k..Len(s) : IsEscapeAt(s, i, j)}

\* the characters of s at the positions K, in order
Restrict(s, K) ==
  [r \in 1..Cardinality(K) |-> s[CHOOSE k \in K : Cardinality({x \in K : x <= k}) = r]]

\* s without the characters of its escape sequences
WithoutEscapes(s) == Restrict(s, Kept(s))

HasEscape(s) == \E i \in 1..Len(s) : s[i] = ESC

\* the k-th payload handled on c is an accepted command
Accepted(c, k) ==
  LET raw == Trim(Msg(heard[c][k]))
  IN /\ raw.toks # <<>>
     /\ raw.toks # <<T_ping>>
     /\ StrLen(raw) <= MAX_MSG_LEN
     /\ Head(raw.toks) \in Vocabulary
     /\ mapCommands(isWin, Head(raw.toks)).kind = "spec"

\* C13: each accepted command launches exactly one child process, whose
\* argument vector is the base arguments of the table entry followed by the
\* tokens after the command name, as many and in the same order, each without
\* its escape sequences; a token that holds none is passed verbatim.
C13_ArgumentVector ==
  \A c \in Conns : \A k \in 1..Len(heard[c]) :
    Accepted(c, k) =>
      LET toks == Trim(Msg(heard[c][k])).toks
          base == mapCommands(isWin, Head(toks)).args
          user == Tail(toks)
      IN \E p \in 1..Len(procs) :
           /\ ProcsFor(c, k) = {p}
           /\ Len(procs[p].args) = Len(base) + Len(user)
           /\ \A i \in 1..Len(base) : procs[p].args[i] = base[i]
           /\ \A j \in 1..Len(user) :
                procs[p].args[Len(base) + j] =
                  IF HasEscape(user[j]) THEN WithoutEscapes(user[j]) ELSE user[j]

\* on Windows, a path that climbs out of the directory and a coloured
\* argument were launched
C13_Witness ==
  /\ isWin
  /\ heard[1] = <<"cat", "esc">>
  /\ Len(procs) = 2
  /\ procs[1].args = <<T_slashc, T_type, T_trav>>
  /\ procs[2].args = <<T_slashc, T_dir, <<"a">> >>

\* C14: the sanitizer returns as many strings as it was given, each the
\* corresponding input without the characters of its escape sequences and
\* with every other character unchanged and in order.
C14_SanitizeRemovesEscapes ==
  sanOut.done =>
    /\ Len(sanOut.args) = Len(sanIn)
    /\ \A i \in 1..Len(sanIn) : sanOut.args[i] = WithoutEscapes(sanIn[i])

\* three arguments: a sequence inside text, a coloured word, a path
C14_Witness ==
  /\ sanOut.done
  /\ sanIn = << <<"/", ESC, "[", "1", "m", "/">>, T_esc, T_trav >>
  /\ sanOut.args = << <<"/", "/">>, <<"a">>, T_trav >>

\* C15: on an authenticated session no message and no outcome of a command
\* closes the session or ends the handling of messages: a payload sent on an
\* open, ready connection is handled whatever came before, the steps of the
\* message handler and of the child processes leave the connection, its
\* handler and its timer alone, and every accepted command handled is
\* launched.
C15_SessionSurvivesFailures ==
  /\ [][\A c \in Conns : \A n \in MsgNames :
          (ClientSend(c, n) /\ pc[c] = "ready" /\ ws[c] = "OPEN")
          => heard'[c] = Append(heard[c], n)]_vars
  /\ [][(heard' # heard \/ procs' # procs)
          => UNCHANGED <<ws, pc, timer, closeCode>>]_vars
  /\ [](\A c \in Conns : \A k \in 1..Len(heard[c]) :
          Accepted(c, k) => ProcsFor(c, k) # {})

\* a launch failed, and the next command ran to a non-zero exit on a
\* connection that is still open
C15_Witness ==
  /\ heard[1] = <<"ls", "ls">>
  /\ Len(procs) = 2
  /\ procs[1].st = "failed"
  /\ procs[2].st = "closed" /\ procs[2].code = "1"
  /\ ws[1] = "OPEN"
  /\ Len(ExitFramesOf(2)) = 1

\* the state of session d is the same before and after the step
SessionUntouched(d) ==
  /\ UNCHANGED <<ws[d], pc[d], token[d], userId[d], timer[d], closeCode[d]>>
  /\ UNCHANGED <<sent[d], pings[d], log[d], heard[d]>>
  /\ Len(procs') >= Len(procs)
  /\ \A p \in 1..Len(procs') :
       IF p <= Len(procs) THEN procs[p].conn = d => procs'[p] = procs[p]
       ELSE procs'[p].conn # d

\* C16: with several sessions active, the output chunks and the exit line of
\* a process are sent on the connection of the session that launched it and
\* on no other, and every step changes the connection, timer, frames and
\* processes of one session at most.
C16_SessionsIsolated ==
  /\ [](\A c \in Conns : \A i \in 1..Len(sent[c]) :
          sent[c][i].p > 0 => procs[sent[c][i].p].conn = c)
  /\ [][\E c \in Conns : \A d \in Conns \ {c} : SessionUntouched(d)]_vars

\* two sessions, each with a process of its own that wrote to it
C16_Witness ==
  /\ Len(procs) = 2
  /\ procs[1].conn # procs[2].conn
  /\ FramesOf(1) # <<>>
  /\ FramesOf(2) # <<>>
  /\ ExitFramesOf(1) # <<>>

\* what the k-th payload handled on c led to: the answer of the message
\* handler and the command lines spawned
Outcome(c, k) ==
  [answer |-> [i \in 1..Len(FramesFor(c, k)) |-> FramesFor(c, k)[i].text],
   spawned |-> {[cmd |-> procs[p].cmd, args |-> procs[p].args, cwd |-> procs[p].cwd] :
                  p \in ProcsFor(c, k)}]

\* C17: the subject a session was authenticated as has no influence on the
\* handling of its commands: the same payload handled on two sessions of
\* different subjects gets the same answer and spawns the same command line.
C17_SubjectBlind ==
  \A c \in Conns : \A d \in Conns :
    \A k \in 1..Len(heard[c]) : \A j \in 1..Len(heard[d]) :
      (userId[c] # userId[d] /\ heard[c][k] = heard[d][j])
      => Outcome(c, k) = Outcome(d, j)

\* subjects A and B each had the same command spawned
C17_Witness ==
  /\ userId[1] = "A"
  /\ userId[2] = "B"
  /\ heard[1] = <<"ls">>
  /\ heard[2] = <<"ls">>
  /\ Cardinality(ProcsFor(1, 1)) = 1
  /\ Cardinality(ProcsFor(2, 1)) = 1

\* C18: a peer that has left more pings unanswered than fit in the
\* unresponsiveness window is considered dead: its connection is no longer
\* open.
C18_SilentPeerClosed ==
  \A c \in Conns : unanswered[c] >= DeadAfterTicks => ws[c] # "OPEN"

\* C19: the keepalive timer of a session is started once, when its
\* verification succeeds and at no other step, and is never started again; a
\* tick on an open connection sends one probe, a tick on a connection that is
\* not open sends nothing, and probes are sent by ticks only.
C19_TimerOncePingEveryTick ==
  /\ [][\A c \in Conns :
          (timer'[c] = "active" /\ timer[c] # "active")
          => (timer[c] = "unset" /\ pc[c] = "verifying" /\ pc'[c] = "ready")]_vars
  /\ [][\A c \in Conns :
          (pc[c] = "verifying" /\ pc'[c] = "ready") => timer'[c] = "active"]_vars
  /\ [][\A c \in Conns :
          Tick(c) => /\ pings'[c] = pings[c] + (IF ws[c] = "OPEN" THEN 1 ELSE 0)
                     /\ sent' = sent]_vars
  /\ [][pings' # pings => nticks' = nticks + 1]_vars

\* a tick on an open connection sent a probe
C19_Witness ==
  /\ timer[1] = "active"
  /\ ws[1] = "OPEN"
  /\ nticks = 1
  /\ pings[1] = 1

\* C20: a payload sent while the verification of the token is pending is
\* neither executed nor answered, then or later: the step that receives it
\* and the step that ends the verification hand nothing to the message
\* handler, and every answer and every process belongs to a handled payload.
C20_EarlyMessageDiscarded ==
  /\ [][\A c \in Conns : \A n \in MsgNames :
          (ClientSend(c, n) /\ pc[c] = "verifying")
          => UNCHANGED <<heard, sent, procs, log>>]_vars
  /\ [][\A c \in Conns :
          (pc[c] = "verifying" /\ pc'[c] # "verifying")
          => (heard' = heard /\ procs' = procs)]_vars
  /\ [](\A c \in Conns :
          /\ \A i \in 1..Len(sent[c]) : sent[c][i].m <= Len(heard[c])
          /\ \A p \in 1..Len(procs) : procs[p].conn = c => procs[p].m <= Len(heard[c]))

\* a payload was sent during the verification, the verification succeeded,
\* and the session holds the banner and nothing else
C20_Witness ==
  /\ nmsgs = 1
  /\ pc[1] = "ready"
  /\ ws[1] = "OPEN"
  /\ heard[1] = <<>>
  /\ procs = <<>>
  /\ sent[1] = <<BannerFrame>>

\* C21: a payload whose command token is a property name the table object
\* inherits is handled like any name outside the table: one 'Command not
\* allowed' frame that names it, no process, and no fault out of the message
\* handler.
C21_InheritedNameRejected ==
  \A c \in Conns : \A k \in 1..Len(heard[c]) :
    LET tok == FirstToken(Msg(heard[c][k]))
    IN tok \in InheritedNames
       => /\ FramesFor(c, k) = <<Frame(ByMessage(k), CrLf(NotAllowedText(tok)))>>
          /\ ProcsFor(c, k) = {}
          /\ \A i \in 1..Len(log[c]) : log[c][i] # "unhandledRejection"

\* q is p with one element added at its end, and that element satisfies ok
ExtendedBy(p, q, ok(_)) ==
  /\ Len(q) = Len(p) + 1
  /\ SubSeq(q, 1, Len(p)) = p
  /\ ok(q[Len(q)])

\* C22: the messages of a session are handled one at a time in arrival
\* order: the step that receives a payload on a listening connection also
\* finishes its handling (it adds the payload at the end of those handled,
\* and any process or frame it produces comes last and belongs to it), so
\* the processes of a session are launched, and the answers sent, in the
\* order of their messages.
C22_ArrivalOrder ==
  /\ [][\A c \in Conns : \A n \in MsgNames :
          (ClientSend(c, n) /\ heard'[c] # heard[c])
          => LET k == Len(heard[c]) + 1
                 OfThis(x) == x.m = k
                 OfThisOn(x) == x.conn = c /\ x.m = k
             IN /\ heard'[c] = Append(heard[c], n)
                /\ procs' = procs \/ ExtendedBy(procs, procs', OfThisOn)
                /\ sent'[c] = sent[c] \/ ExtendedBy(sent[c], sent'[c], OfThis)]_vars
  /\ [](\A p \in 1..Len(procs) : \A q \in 1..Len(procs) :
          (p < q /\ procs[p].conn = procs[q].conn) => procs[p].m < procs[q].m)
  /\ [](\A c \in Conns : \A i \in 1..Len(sent[c]) : \A j \in 1..Len(sent[c]) :
          (i < j /\ sent[c][i].m > 0 /\ sent[c][j].m > 0) => sent[c][i].m < sent[c][j].m)

\* two accepted commands, launched in the order they arrived
C22_Witness ==
  /\ ~isWin
  /\ heard[1] = <<"cat", "ls">>
  /\ Len(procs) = 2
  /\ procs[1].cmd = "cat" /\ procs[1].m = 1
  /\ procs[2].cmd = "ls" /\ procs[2].m = 2

\* C23: a connection that closes leaves its processes as they are, a running
\* process of a closed connection can still write and close, and no frame is
\* added to a connection that is closing or closed.
C23_DisconnectLeavesProcess ==
  /\ [][\A c \in Conns : (ws'[c] # ws[c] /\ ws'[c] \in {"CLOSING", "CLOSED"} /\ ws[c] # "NONE")
          => procs' = procs]_vars
  /\ [][\A c \in Conns : ws[c] \in {"CLOSING", "CLOSED"} => sent'[c] = sent[c]]_vars
  /\ [](\A p \in 1..Len(procs) :
          (procs[p].st = "running" /\ ws[procs[p].conn] = "CLOSED")
          => /\ ENABLED ChildClose(p, "0")
             /\ procs[p].chunks < MaxChunks => ENABLED ChildData(p, "stdout"))

\* the peer left before the process wrote anything: the process wrote its
\* chunks and closed, and nothing of it was sent
C23_Witness ==
  /\ Len(procs) = 1
  /\ ws[1] = "CLOSED"
  /\ procs[1].st = "closed"
  /\ procs[1].chunks = MaxChunks
  /\ procs[1].code = "0"
  /\ FramesOf(1) = <<>>

\* C24: no string the sanitizer returns holds an escape sequence, and
\* sanitizing its output again changes nothing.
C24_SanitizeIdempotent ==
  sanOut.done =>
    /\ \A i \in 1..Len(sanOut.args) :
         ~ \E a \in 1..Len(sanOut.args[i]) : \E b \in 1..Len(sanOut.args[i]) :
             IsEscapeAt(sanOut.args[i], a, b)
    /\ sanitizeArgs(sanOut.args) = sanOut.args

\* the exit codes that are numbers
NumericCodes == {"0", "1"}

\* C25: the exit-status line of every command that closed carries a numeric
\* exit code, a process ended by a signal included.
C25_NumericExitCode ==
  \A c \in Conns : \A i \in 1..Len(sent[c]) :
    IsExitFrame(sent[c][i]) => sent[c][i].text[2] \in NumericCodes

\* the number of line feeds among the first n pieces of s
LineFeedsIn(s, n) == Cardinality({h \in 1..n : s[h] = LF})

\* t is s with every line feed turned into carriage return + line feed and
\* every other piece as it was
IsCrLfOf(t, s) ==
  /\ Len(t) = Len(s) + LineFeedsIn(s, Len(s))
  /\ \A i \in 1..Len(s) :
       LET at == i + LineFeedsIn(s, i - 1)
       IN IF s[i] = LF THEN t[at] = CR /\ t[at + 1] = LF ELSE t[at] = s[i]

\* the texts the code can have handed to sendText for the frame f of c
SourceTexts(c, f) ==
  IF f.p > 0
  THEN {StdoutText(ChunkData), StderrText(ChunkData)} \cup {ExitText(code) : code \in ExitCodes}
  ELSE IF f.m > 0
  THEN {InputTooLongText, NotAllowedText(FirstToken(Msg(heard[c][f.m])))}
  ELSE {TokenNotReceivedText, InvalidTokenText, BannerText}

\* C26: the text of every frame sent is one of the texts of the code with
\* each line feed replaced by carriage return + line feed and nothing else
\* changed.
C26_LineFeedsRewritten ==
  \A c \in Conns : \A i \in 1..Len(sent[c]) :
    \E s \in SourceTexts(c, sent[c][i]) : IsCrLfOf(sent[c][i].text, s)

\* the banner, a stdout chunk, a stderr chunk and two exit lines were sent
C26_Witness ==
  /\ Len(procs) = 2
  /\ Len(sent[1]) = 5
  /\ sent[1][1].text[2] = CR
  /\ \E i \in 1..Len(sent[1]) : sent[1][i].text = <<"o", CR, LF, "k", CR, LF>>
  /\ \E i \in 1..Len(sent[1]) : sent[1][i].text = <<"Error: ", "o", CR, LF, "k", CR, LF>>
  /\ Len(ExitFramesOf(1)) = 1
  /\ Len(ExitFramesOf(2)) = 1

\* the session of c had an error outcome: it was refused, a payload was
\* rejected, a launch failed, or a process closed with another code than 0
HasErrorOutcome(c) ==
  \/ pc[c] = "refused"
  \/ \E k \in 1..Len(heard[c]) :
       LET raw == Trim(Msg(heard[c][k]))
       IN raw.toks # <<T_ping>>
          /\ (StrLen(raw) > MAX_MSG_LEN \/ FirstToken(Msg(heard[c][k])) \notin Vocabulary)
  \/ \E p \in 1..Len(procs) :
       procs[p].conn = c
       /\ (procs[p].st = "failed" \/ (procs[p].st = "closed" /\ procs[p].code # "0"))

\* C27: a session that had an error outcome has a log entry about an error.
C27_ErrorsLogged ==
  \A c \in Conns :
    HasErrorOutcome(c) => \E i \in 1..Len(log[c]) : log[c][i] # "Authenticated user"

\* the native utility of a vocabulary name
NativeOf(tok) ==
  CASE tok = T_ls -> "ls" [] tok = T_pwd -> "pwd" [] tok = T_cat -> "cat"
    [] tok = T_less -> "less" [] tok = T_head -> "head" [] tok = T_tail -> "tail"

\* the builtin of the command interpreter that stands for a vocabulary name
BuiltinOf(tok) ==
  CASE tok = T_ls -> T_dir [] tok = T_pwd -> T_cd [] tok = T_cat -> T_type

\* C28: on a non-POSIX host a payload naming less, head or tail spawns
\* nothing and gets the 'Command not allowed' frame, and one naming ls, pwd or
\* cat spawns 'cmd' with the base arguments /c dir, /c cd or /c type; on a
\* POSIX host each of the six names spawns the utility of its name with no
\* base argument.
C28_PlatformTable ==
  \A c \in Conns : \A k \in 1..Len(heard[c]) :
    LET toks == Trim(Msg(heard[c][k])).toks
        tok == FirstToken(Msg(heard[c][k]))
        user == Tail(toks)
    IN (tok \in Vocabulary /\ StrLen(Trim(Msg(heard[c][k]))) <= MAX_MSG_LEN)
       => IF isWin /\ tok \in {T_less, T_head, T_tail}
          THEN /\ ProcsFor(c, k) = {}
               /\ FramesFor(c, k) = <<Frame(ByMessage(k), CrLf(NotAllowedText(tok)))>>
          ELSE \E p \in ProcsFor(c, k) :
                 IF isWin
                 THEN /\ procs[p].cmd = "cmd"
                      /\ procs[p].args = <<T_slashc, BuiltinOf(tok)>> \o user
                 ELSE /\ procs[p].cmd = NativeOf(tok)
                      /\ procs[p].args = user

\* on Windows head was refused and cat was launched through cmd
C28_Witness ==
  /\ isWin
  /\ heard[1] = <<"head", "cat">>
  /\ Len(sent[1]) = 2
  /\ Len(procs) = 1
  /\ procs[1].cmd = "cmd"
  /\ procs[1].args = <<T_slashc, T_type, T_trav>>

\* C29: a payload that is empty or holds only whitespace, handled on a ready
\* session, launches no process and leaves the connection, the position of
\* its handler, its timer and the processes in flight as they were.
C29_BlankMessageInert ==
  [][\A c \in Conns : \A n \in MsgNames :
       (Trim(Msg(n)).toks = <<>> /\ heard'[c] = Append(heard[c], n))
       => UNCHANGED <<ws, pc, timer, closeCode, pings, procs>>]_vars

\* a blank payload was handled while a process was in flight
C29_Witness ==
  /\ heard[1] = <<"ls", "blank">>
  /\ Len(procs) = 1
  /\ procs[1].st = "running"
  /\ pc[1] = "ready"
  /\ ws[1] = "OPEN"
  /\ timer[1] = "active"

====
